---- MODULE Spec2Model ----
(***************************************************************************)
(* Model of the sentiment classifier of x-analysis                         *)
(* (scripts/processing/sentiment_analyzer.py): the regex based text        *)
(* cleaner, the polarity-threshold labelling rule, the failure fallback    *)
(* and the batch variant over a dataframe.                                 *)
(*                                                                         *)
(* A Python str is a sequence of one-character strings.  A polarity or     *)
(* subjectivity is an integer number of hundredths (0.1 is 10).            *)
(***************************************************************************)
EXTENDS Integers, Sequences, FiniteSets, TLC

VARIABLES op, text, blob, cleaned, recleaned, sentiment, tweets_df, blobs,
          result_df

\* the analyzer object, the scorer in use and the calls made on the analyzer
VARIABLES analyzer, scorer, ncalls

session == <<analyzer, scorer, ncalls>>

\* the caller's frame after batch_analyze, the tuple the Spark UDF returns,
\* and the argument and the result of process_tweets
VARIABLES df_after, udf, raw_df, processed_df

analysis ==
    <<op, text, blob, cleaned, recleaned, sentiment, tweets_df, blobs,
      result_df, session, df_after, udf, raw_df, processed_df>>

\* run_full_pipeline: its position, the runs started, the files of data/raw,
\* the file name collect_tweets returned, the steps and the calls of
\* process_data made in the run, the faults the run meets, how often each
\* raw file was appended to processed_tweets (ever, and in this run), and
\* whether the run raised to its caller
VARIABLES pc, runs, raw_dir, filename, steps, events, faults, appended,
          run_appended, propagated

pipeline ==
    <<pc, runs, raw_dir, filename, steps, events, faults, appended,
      run_appended, propagated>>

vars == <<analysis, pipeline>>

(***************************************************************************)
(* Bounds of the explored inputs.                                          *)
(***************************************************************************)
MaxPieces == 4
MaxAnalyzePieces == 2
MaxBatch == 2
MaxCalls == 3
MaxTweets == 2
MaxRuns == 2

(***************************************************************************)
(* Python values handed to the analyzer as "text".                         *)
(***************************************************************************)
Str(s) == [type |-> "str", chars |-> s]
None == [type |-> "NoneType", chars |-> <<>>]

Whitespace == {" ", "\t"}
WordChars == {"h", "t", "p", "w", "s", "a"}

\* the building blocks input strings are assembled from
Pieces ==
    { <<"h","t","t","p">>, <<"w","w","w">>, <<"h","t">>, <<"t","p">>,
      <<"@">>, <<"#">>, <<" ">>, <<"\t">>, <<":">>, <<"a">> }

RECURSIVE StringsOf(_)
StringsOf(n) ==
    IF n = 0 THEN { <<>> }
    ELSE LET shorter == StringsOf(n - 1)
         IN shorter \cup { s \o p : s \in shorter, p \in Pieces }

(***************************************************************************)
(* Regular expressions of clean_text.  Every alternative of both patterns  *)
(* is a literal followed by one or more characters of a class, so a        *)
(* pattern is the ordered sequence of its alternatives.                    *)
(***************************************************************************)
URL_PATTERN ==
    << [lit |-> <<"h","t","t","p">>,     cls |-> "S"],
       [lit |-> <<"w","w","w">>,         cls |-> "S"],
       [lit |-> <<"h","t","t","p","s">>, cls |-> "S"] >>

TOKEN_PATTERN ==
    << [lit |-> <<"@">>, cls |-> "w"],
       [lit |-> <<"#">>, cls |-> "w"] >>

InClass(c, cls) ==
    IF cls = "S" THEN c \notin Whitespace ELSE c \in WordChars

\* length of the longest run of class characters of s starting at i (greedy +)
RECURSIVE RunLen(_, _, _)
RunLen(s, i, cls) ==
    IF i > Len(s) \/ ~InClass(s[i], cls) THEN 0
    ELSE 1 + RunLen(s, i + 1, cls)

\* length of the match of one alternative at position i, 0 when it fails
AltLen(alt, s, i) ==
    LET n == Len(alt.lit)
    IN IF i + n - 1 <= Len(s) /\ SubSeq(s, i, i + n - 1) = alt.lit
          /\ RunLen(s, i + n, alt.cls) > 0
       THEN n + RunLen(s, i + n, alt.cls)
       ELSE 0

\* length of the match of the pattern at i: the first alternative that matches
RECURSIVE MatchLenFrom(_, _, _, _)
MatchLenFrom(pat, k, s, i) ==
    IF k > Len(pat) THEN 0
    ELSE IF AltLen(pat[k], s, i) > 0 THEN AltLen(pat[k], s, i)
    ELSE MatchLenFrom(pat, k + 1, s, i)

MatchLen(pat, s, i) == MatchLenFrom(pat, 1, s, i)

\* a substitution that stops after the first match (count=1)
RECURSIVE SubFirstOnly(_, _, _)
SubFirstOnly(pat, s, i) ==
    IF i > Len(s) THEN <<>>
    ELSE IF MatchLen(pat, s, i) > 0
         THEN SubSeq(s, i + MatchLen(pat, s, i), Len(s))
         ELSE <<s[i]>> \o SubFirstOnly(pat, s, i + 1)

\* re.sub(pat, '', s) from position i: leftmost, non-overlapping matches
RECURSIVE SubFrom(_, _, _)
SubFrom(pat, s, i) ==
    IF i > Len(s) THEN <<>>
    ELSE IF MatchLen(pat, s, i) > 0
         THEN SubFrom(pat, s, i + MatchLen(pat, s, i))
         ELSE <<s[i]>> \o SubFrom(pat, s, i + 1)

re_sub(pat, s) == SubFrom(pat, s, 1)

\* str.split(): the maximal runs of non-whitespace characters, in order
RECURSIVE SplitFrom(_, _)
SplitFrom(s, i) ==
    IF i > Len(s) THEN <<>>
    ELSE IF s[i] \in Whitespace THEN SplitFrom(s, i + 1)
    ELSE LET n == RunLen(s, i, "S")
         IN <<SubSeq(s, i, i + n - 1)>> \o SplitFrom(s, i + n)

split(s) == SplitFrom(s, 1)

\* ' '.join(words)
RECURSIVE join(_)
join(words) ==
    IF Len(words) = 0 THEN <<>>
    ELSE IF Len(words) = 1 THEN words[1]
    ELSE words[1] \o <<" ">> \o join(Tail(words))

\* str.strip()
RECURSIVE strip(_)
strip(s) ==
    IF Len(s) = 0 THEN s
    ELSE IF s[1] \in Whitespace THEN strip(Tail(s))
    ELSE IF s[Len(s)] \in Whitespace THEN strip(SubSeq(s, 1, Len(s) - 1))
    ELSE s

\* a cleaner that trims but does not collapse the whitespace
clean_text_strip_only(s) ==
    strip(re_sub(TOKEN_PATTERN, re_sub(URL_PATTERN, s)))

\* SentimentAnalyzer.clean_text on a str
clean_text(s) ==
    LET no_urls == re_sub(URL_PATTERN, s)
        no_tokens == re_sub(TOKEN_PATTERN, no_urls)
    IN strip(join(split(no_tokens)))

(***************************************************************************)
(* The scorer (TextBlob) is an external capability: what it answers for a  *)
(* cleaned text is an input of the call, either an exception or a          *)
(* (polarity, subjectivity) pair in hundredths.                            *)
(***************************************************************************)
POSITIVE_THRESHOLD == 10
NEGATIVE_THRESHOLD == -10

PolarityValues == {-100, -50, -11, -10, -9, -1, 0, 1, 9, 10, 11, 50, 100}
SubjectivityValues == {0, 50, 100}

ScorerRaises == [raises |-> TRUE, polarity |-> 0, subjectivity |-> 0]
ScorerOutcomes ==
    { ScorerRaises } \cup
    { [raises |-> FALSE, polarity |-> p, subjectivity |-> q] :
          p \in PolarityValues, q \in SubjectivityValues }

abs(x) == IF x < 0 THEN -x ELSE x

\* a labelling rule whose thresholds are inclusive
classify_inclusive(polarity) ==
    IF polarity >= POSITIVE_THRESHOLD THEN "positive"
    ELSE IF polarity <= NEGATIVE_THRESHOLD THEN "negative"
    ELSE "neutral"

\* a labelling rule whose negative threshold lost its minus sign
classify_missing_minus(polarity) ==
    IF polarity > POSITIVE_THRESHOLD THEN "positive"
    ELSE IF polarity < POSITIVE_THRESHOLD THEN "negative"
    ELSE "neutral"

\* the labelling rule of analyze_sentiment
classify(polarity) ==
    IF polarity > POSITIVE_THRESHOLD THEN "positive"
    ELSE IF polarity < NEGATIVE_THRESHOLD THEN "negative"
    ELSE "neutral"

\* the try block raises: re.sub rejects a non-str, or the scorer raises
body_raises(t, b) == t.type # "str" \/ b.raises

\* a result dict whose confidence is the signed polarity
body_value_signed(t, b) ==
    [cleaned_text |-> Str(clean_text(t.chars)),
     polarity |-> b.polarity,
     subjectivity |-> b.subjectivity,
     sentiment_label |-> classify(b.polarity),
     confidence |-> b.polarity]

\* the dict the try block returns when nothing raises
body_value(t, b) ==
    [cleaned_text |-> Str(clean_text(t.chars)),
     polarity |-> b.polarity,
     subjectivity |-> b.subjectivity,
     sentiment_label |-> classify(b.polarity),
     confidence |-> abs(b.polarity)]

\* an except block that returns the cleaned text where it can
fallback_cleaned(t) ==
    [cleaned_text |-> IF t.type = "str" THEN Str(clean_text(t.chars)) ELSE t,
     polarity |-> 0,
     subjectivity |-> 0,
     sentiment_label |-> "neutral",
     confidence |-> 0]

\* the dict the except block returns
fallback(t) ==
    [cleaned_text |-> t,
     polarity |-> 0,
     subjectivity |-> 0,
     sentiment_label |-> "neutral",
     confidence |-> 0]

\* analyze_sentiment without its except block
analyze_sentiment_unguarded(t, b) ==
    IF body_raises(t, b)
    THEN [raised |-> TRUE, value |-> fallback(None)]
    ELSE [raised |-> FALSE, value |-> body_value(t, b)]

\* SentimentAnalyzer.analyze_sentiment: what the call does (raise or return)
analyze_sentiment(t, b) ==
    IF body_raises(t, b)
    THEN [raised |-> FALSE, value |-> fallback(t)]
    ELSE [raised |-> FALSE, value |-> body_value(t, b)]

(***************************************************************************)
(* pandas dataframes: the column names, the row labels (index) and the     *)
(* rows in order, each row a function from column name to cell.            *)
(***************************************************************************)
Frame(columns, index, data) ==
    [columns |-> columns, index |-> index, data |-> data]

NaN == [type |-> "float", chars |-> <<"n","a","n">>]

SENTIMENT_COLUMNS ==
    <<"cleaned_text", "polarity", "subjectivity", "sentiment_label",
      "confidence">>

Range(f) == { f[k] : k \in DOMAIN f }

\* RangeIndex(n): the labels 0 .. n-1
RangeIndex(n) == [k \in 1..n |-> k - 1]

\* df.reset_index(drop=True)
reset_index(df) == Frame(df.columns, RangeIndex(Len(df.data)), df.data)

\* pd.DataFrame(list of dicts): the columns are the keys of the dicts, and
\* an empty list gives a frame without columns
DataFrame(dicts) ==
    Frame(IF Len(dicts) = 0 THEN <<>> ELSE SENTIMENT_COLUMNS,
          RangeIndex(Len(dicts)), dicts)

\* the row of df labelled l, NaN cells when df has no such label
RowAt(df, l) ==
    IF \E k \in DOMAIN df.index : df.index[k] = l
    THEN df.data[CHOOSE k \in DOMAIN df.index : df.index[k] = l]
    ELSE [c \in Range(df.columns) |-> NaN]

\* the labels of b that a lacks, in b's order
RECURSIVE NewLabels(_, _, _)
NewLabels(a, b, k) ==
    IF k > Len(b.index) THEN <<>>
    ELSE IF b.index[k] \in Range(a.index) THEN NewLabels(a, b, k + 1)
    ELSE <<b.index[k]>> \o NewLabels(a, b, k + 1)

\* pd.concat([a, b], axis=1): outer join of the rows on their labels
concat_axis1(a, b) ==
    LET labels == a.index \o NewLabels(a, b, 1)
    IN Frame(a.columns \o b.columns, labels,
             [k \in DOMAIN labels |->
                 RowAt(a, labels[k]) @@ RowAt(b, labels[k])])

\* the loop of batch_analyze: analyze_sentiment on rows k.. in iterrows order
RECURSIVE analyze_rows(_, _, _)
analyze_rows(df, bl, k) ==
    IF k > Len(df.data) THEN <<>>
    ELSE <<analyze_sentiment(df.data[k]["text"], bl[k])>>
             \o analyze_rows(df, bl, k + 1)

\* a batch that concatenates without resetting the input's row labels
batch_analyze_keep_index(df, bl) ==
    LET calls == analyze_rows(df, bl, 1)
        sentiment_results == [k \in DOMAIN calls |-> calls[k].value]
        sentiment_df == DataFrame(sentiment_results)
    IN [raised |-> \E k \in DOMAIN calls : calls[k].raised,
        value |-> concat_axis1(df, sentiment_df)]

\* SentimentAnalyzer.batch_analyze; it raises when a call of its loop does
batch_analyze(df, bl) ==
    LET calls == analyze_rows(df, bl, 1)
        sentiment_results == [k \in DOMAIN calls |-> calls[k].value]
        sentiment_df == DataFrame(sentiment_results)
    IN [raised |-> \E k \in DOMAIN calls : calls[k].raised,
        value |-> concat_axis1(reset_index(df), sentiment_df)]

(***************************************************************************)
(* The per-row function of SparkProcessor.add_sentiment_analysis           *)
(* (scripts/processing/spark_processor.py).  It is given the text of the   *)
(* row and asks the scorer sc, a function of the cleaned text.             *)
(***************************************************************************)
UDF_POSITIVE_THRESHOLD == 10
UDF_NEGATIVE_THRESHOLD == -10

\* a UDF cleaner that leaves the mentions and hashtags in
udf_clean_urls_only(s) ==
    strip(join(split(re_sub(URL_PATTERN, s))))

\* the three cleaning statements of the UDF
udf_clean(s) ==
    LET cleaned1 == re_sub(URL_PATTERN, s)
        cleaned2 == re_sub(TOKEN_PATTERN, cleaned1)
    IN strip(join(split(cleaned2)))

\* the UDF's own if / elif / else
udf_classify(polarity) ==
    IF polarity > UDF_POSITIVE_THRESHOLD THEN "positive"
    ELSE IF polarity < UDF_NEGATIVE_THRESHOLD THEN "negative"
    ELSE "neutral"

\* analyze_sentiment_udf: re.sub raises on a non-str and the scorer may
\* raise; the bare except turns both into the neutral tuple.  float() of the
\* scorer's float is that float.
analyze_sentiment_udf(t, sc) ==
    IF t.type # "str" THEN <<0, 0, "neutral", 0>>
    ELSE LET b == sc[udf_clean(t.chars)]
         IN IF b.raises THEN <<0, 0, "neutral", 0>>
            ELSE <<b.polarity, b.subjectivity, udf_classify(b.polarity),
                   abs(b.polarity)>>

\* the cleaned texts the scorer is asked about in a call on t
ScorerKeys(t) ==
    IF t.type = "str" THEN {clean_text(t.chars), udf_clean(t.chars)} ELSE {}

(***************************************************************************)
(* SparkProcessor.process_tweets.  A Spark frame is None or a set of       *)
(* column names and rows; of a row the model keeps id, text and lang.  A   *)
(* cell is null or holds a value, and a condition on a null cell is null:  *)
(* filter keeps the rows whose condition is true.  fails says that a Spark *)
(* job on the frame fails when it runs.                                    *)
(***************************************************************************)
SparkNone == [none |-> TRUE, columns |-> {}, rows |-> <<>>, fails |-> FALSE]
SparkFrame(columns, rows, fails) ==
    [none |-> FALSE, columns |-> columns, rows |-> rows, fails |-> fails]
NoSparkFrame == SparkNone
NoProcessed == [raised |-> FALSE, value |-> SparkNone]

Cell(v) == [null |-> FALSE, val |-> v]
NullText == [null |-> TRUE, val |-> <<>>]
NullString == [null |-> TRUE, val |-> ""]

SELECTED_COLUMNS ==
    {"id", "text", "created_at", "author_id", "lang", "retweet_count",
     "like_count", "reply_count", "quote_count", "collected_at"}
ADDED_COLUMNS == {"processed_at", "tweet_date", "tweet_hour"}
RT_PREFIX == <<"R", "T", " ", "@">>

\* col == value
col_eq(c, v) ==
    IF c.null THEN "null" ELSE IF c.val = v THEN "true" ELSE "false"

\* a test for the prefix anywhere in the text
col_contains(c, prefix) ==
    IF c.null THEN "null"
    ELSE IF \E i \in 1..Len(c.val) :
               /\ i + Len(prefix) - 1 <= Len(c.val)
               /\ SubSeq(c.val, i, i + Len(prefix) - 1) = prefix
         THEN "true" ELSE "false"

\* col.startswith(prefix)
col_startswith(c, prefix) ==
    IF c.null THEN "null"
    ELSE IF Len(c.val) >= Len(prefix) /\ SubSeq(c.val, 1, Len(prefix)) = prefix
         THEN "true" ELSE "false"

\* ~condition
col_not(x) ==
    IF x = "null" THEN "null" ELSE IF x = "true" THEN "false" ELSE "true"

\* col.cast("string")
cast_string(c) == IF c.null THEN NullString ELSE Cell(ToString(c.val))

\* df.filter(condition): the rows whose condition is true, in order
RECURSIVE filter_from(_, _, _)
filter_from(rows, truth, k) ==
    IF k > Len(rows) THEN <<>>
    ELSE (IF truth[k] = "true" THEN <<rows[k]>> ELSE <<>>)
             \o filter_from(rows, truth, k + 1)

filter(rows, truth) == filter_from(rows, truth, 1)

\* process_tweets: None when raw_df is None (AttributeError), when a selected
\* column is missing (AnalysisException) or when count() fails; all three
\* are caught by its except block
process_tweets(raw) ==
    IF raw.none \/ ~(SELECTED_COLUMNS \subseteq raw.columns) \/ raw.fails
    THEN [raised |-> FALSE, value |-> SparkNone]
    ELSE LET selected ==
                 [k \in DOMAIN raw.rows |->
                     [id |-> cast_string(raw.rows[k].id),
                      text |-> raw.rows[k].text,
                      lang |-> raw.rows[k].lang]]
             english ==
                 filter(selected,
                        [k \in DOMAIN selected |-> col_eq(selected[k].lang, "en")])
             originals ==
                 filter(english,
                        [k \in DOMAIN english |->
                            col_not(col_startswith(english[k].text, RT_PREFIX))])
         IN [raised |-> FALSE,
             value |-> SparkFrame(SELECTED_COLUMNS \cup ADDED_COLUMNS,
                                  originals, FALSE)]

\* the raw frames explored: tweets in three languages (or none), retweets,
\* texts that mention a retweet later on, and frames without a lang column
TweetTexts ==
    { Cell(<<"R","T"," ","@","a">>), Cell(<<"a"," ","R","T"," ","@","a">>),
      Cell(<<"R","T">>), Cell(<<"a">>), NullText }
TweetLangs == { Cell("en"), Cell("fr"), NullString }
RawFrames ==
    { SparkNone } \cup
    UNION { { SparkFrame(cols,
                         [k \in 1..n |->
                             [id |-> Cell(k), text |-> texts[k], lang |-> langs[k]]],
                         fails) :
                  texts \in [1..n -> TweetTexts], langs \in [1..n -> TweetLangs],
                  cols \in {SELECTED_COLUMNS, SELECTED_COLUMNS \ {"lang"}},
                  fails \in BOOLEAN } : n \in 0..MaxTweets }

(***************************************************************************)
(* The pipeline of main.py.  A raw file is named after the run that wrote  *)
(* it (the timestamp of its collect_tweets); raw_dir maps the files of     *)
(* data/raw to whether they hold tweets.  A fault record says which        *)
(* external step of the run fails.                                         *)
(***************************************************************************)
NoFile == 0
PROCESSED_TWEETS == "processed_tweets"
VIEW_NAMES == <<"hourly_sentiment", "daily_sentiment", "trending_topics">>

ApiOutcomes == {"tweets", "empty", "error"}
SaveOutcomes == {"ok", "no_file", "empty_file"}
Faults ==
    [api : ApiOutcomes, save_file : SaveOutcomes, read : BOOLEAN,
     process : BOOLEAN, save_hdfs : BOOLEAN, views : BOOLEAN]
NoFaults ==
    [api |-> "tweets", save_file |-> "ok", read |-> FALSE, process |-> FALSE,
     save_hdfs |-> FALSE, views |-> FALSE]

Event(call, path, mode, result) ==
    [call |-> call, path |-> path, mode |-> mode, result |-> result]

\* TwitterStreamer.search_tweets: an API error is caught and gives []
search_tweets(f) == IF f.api = "tweets" THEN "tweets" ELSE "empty"

\* TwitterStreamer.save_tweets_to_file: an error is caught; it may leave no
\* file or, when it comes after open(), an empty one
save_tweets_to_file(dir, name, f) ==
    IF f.save_file = "no_file" THEN dir
    ELSE [n \in DOMAIN dir \cup {name} |->
             IF n = name THEN f.save_file = "ok" ELSE dir[n]]

\* collect_tweets: the file name, or None when the search returned nothing
collect_tweets(dir, run, f) ==
    IF search_tweets(f) = "tweets"
    THEN [raised |-> FALSE, filename |-> run,
          raw_dir |-> save_tweets_to_file(dir, run, f)]
    ELSE [raised |-> FALSE, filename |-> NoFile, raw_dir |-> dir]

\* the files read_json_files is pointed at: data/raw/<filename>, or
\* data/raw/*.json when process_data got no file name
files_at_path(dir, name) ==
    IF name # NoFile THEN {name} \cap DOMAIN dir ELSE DOMAIN dir

\* SparkProcessor.read_json_files: None when the path matches no file or the
\* read fails, else the frame of the files read
read_json_files(dir, name, f) ==
    IF f.read \/ files_at_path(dir, name) = {}
    THEN [none |-> TRUE, files |-> {}, count |-> 0]
    ELSE [none |-> FALSE, files |-> files_at_path(dir, name),
          count |-> Cardinality({n \in files_at_path(dir, name) : dir[n]})]

\* a guard that forgets the empty frame
has_no_data_none_only(raw) == raw.none

\* raw_df is None or raw_df.count() == 0
has_no_data(raw) == raw.none \/ raw.count = 0

\* the calls of process_data after its guard.  add_sentiment_analysis on the
\* None of a failed process_tweets raises AttributeError; save_to_hdfs
\* swallows its own error; create_aggregated_views returns None on error.
calls_after_guard(f) ==
    <<Event("process_tweets", "", "", IF f.process THEN "None" ELSE "frame")>>
    \o (IF f.process
        THEN <<Event("add_sentiment_analysis", "", "", "raised")>>
        ELSE <<Event("add_sentiment_analysis", "", "", "frame"),
               Event("save_to_hdfs", PROCESSED_TWEETS, "append",
                     IF f.save_hdfs THEN "error" ELSE "saved"),
               Event("create_aggregated_views", "", "",
                     IF f.views THEN "None" ELSE "views")>>
             \o (IF f.views THEN <<>>
                 ELSE [k \in DOMAIN VIEW_NAMES |->
                          Event("save_to_hdfs", VIEW_NAMES[k], "overwrite",
                                "saved")]))

\* process_data without its except block
process_data_unguarded(dir, name, f) ==
    LET raw == read_json_files(dir, name, f)
        read == Event("read_json_files", "", "",
                      IF raw.none THEN "None"
                      ELSE IF raw.count = 0 THEN "empty" ELSE "records")
    IN IF has_no_data(raw)
       THEN [raised |-> FALSE, events |-> <<read>>, appended |-> {}]
       ELSE [raised |-> f.process,
             events |-> <<read>> \o calls_after_guard(f),
             appended |-> IF f.process \/ f.save_hdfs THEN {}
                          ELSE {n \in raw.files : dir[n]}]

\* SentimentAnalysisPipeline.process_data: the calls it makes, the raw files
\* whose tweets it appends to processed_tweets, and whether it raises
process_data(dir, name, f) ==
    LET raw == read_json_files(dir, name, f)
        read == Event("read_json_files", "", "",
                      IF raw.none THEN "None"
                      ELSE IF raw.count = 0 THEN "empty" ELSE "records")
    IN IF has_no_data(raw)
       THEN [raised |-> FALSE, events |-> <<read>>, appended |-> {}]
       ELSE [raised |-> FALSE,
             events |-> <<read>> \o calls_after_guard(f),
             appended |-> IF f.process \/ f.save_hdfs THEN {}
                          ELSE {n \in raw.files : dir[n]}]

PipelineIdle ==
    /\ pc = "idle"
    /\ runs = 0
    /\ raw_dir = <<>>
    /\ filename = NoFile
    /\ steps = <<>>
    /\ events = <<>>
    /\ faults = NoFaults
    /\ appended = [n \in 1..MaxRuns |-> 0]
    /\ run_appended = {}
    /\ propagated = FALSE

\* a batch that resets the row labels of the caller's frame in place
caller_frame_reindexed(df) == reset_index(df)

\* the caller's frame after batch_analyze: iterrows and reset_index(drop=True)
\* build new objects and nothing assigns into tweets_df
caller_frame_after(df) == df

(***************************************************************************)
(* State: the frame of the call in progress on the analyzer.  The analyzer *)
(* keeps no field besides its logger, so a finished call leaves nothing.   *)
(***************************************************************************)
NoBlob == [raises |-> FALSE, polarity |-> 0, subjectivity |-> 0]
NoSentiment == [raised |-> FALSE, value |-> fallback(None)]
NoFrame == Frame(<<>>, <<>>, <<>>)
NoResultFrame == [raised |-> FALSE, value |-> NoFrame]
NoUdf == <<0, 0, "neutral", 0>>

\* the records of the explored batches: a clean text, texts the cleaner
\* changes, and a value that is no str
BatchTexts ==
    { Str(<<"a">>), Str(<<"w","w","w",":"," ","a"," ">>), Str(<<"@","a">>),
      None }
BatchOutcomes ==
    { ScorerRaises,
      [raises |-> FALSE, polarity |-> 0, subjectivity |-> 0],
      [raises |-> FALSE, polarity |-> 50, subjectivity |-> 50],
      [raises |-> FALSE, polarity |-> -11, subjectivity |-> 100] }
\* the first row label of an input batch: 0 for a fresh frame, more for a
\* frame whose leading rows were filtered away
FirstLabels == {0, 1}

InputFrame(texts, first) ==
    Frame(<<"id", "text">>,
          [k \in DOMAIN texts |-> first + k - 1],
          [k \in DOMAIN texts |-> [id |-> k, text |-> texts[k]]])

\* the analyzer as __init__ leaves it: its only attribute is the logger
NewAnalyzer == [logger |-> "scripts.processing.sentiment_analyzer"]

\* a method that keeps its last result on the object and returns it again
self_analyze_sentiment_memo(self, t, b) ==
    IF "last" \in DOMAIN self
    THEN [self |-> self, ret |-> self.last]
    ELSE [self |-> [logger |-> self.logger, last |-> analyze_sentiment(t, b)],
          ret |-> analyze_sentiment(t, b)]

\* analyze_sentiment as a method call: the object after it and what it returns
self_analyze_sentiment(self, t, b) ==
    [self |-> self, ret |-> analyze_sentiment(t, b)]

\* batch_analyze as a method call
self_batch_analyze(self, df, bl) ==
    [self |-> self, ret |-> batch_analyze(df, bl)]

\* a fixed scorer is a function of the cleaned text it is given
NoScorer == <<>>
SessionKeys == { clean_text(t.chars) : t \in { u \in BatchTexts : u.type = "str" } }
SessionScorers == [SessionKeys -> BatchOutcomes]

\* what the scorer sc answers in a call on t (it is not reached for a non-str)
Score(sc, t) ==
    IF t.type = "str" THEN sc[clean_text(t.chars)] ELSE ScorerRaises

InputStrings == StringsOf(MaxPieces)
AnalyzeTexts == { Str(s) : s \in StringsOf(MaxAnalyzePieces) } \cup { None }

Init ==
    /\ op = "idle"
    /\ text = None
    /\ blob = NoBlob
    /\ cleaned = <<>>
    /\ recleaned = <<>>
    /\ sentiment = NoSentiment
    /\ tweets_df = NoFrame
    /\ blobs = <<>>
    /\ result_df = NoResultFrame
    /\ df_after = NoFrame
    /\ udf = NoUdf
    /\ raw_df = NoSparkFrame
    /\ processed_df = NoProcessed
    /\ analyzer = NewAnalyzer
    /\ scorer = NoScorer
    /\ ncalls = 0
    /\ PipelineIdle

CallCleanText ==
    /\ op = "idle"
    /\ \E s \in InputStrings :
          /\ text' = Str(s)
          /\ cleaned' = clean_text(s)
    /\ op' = "clean_text"
    /\ UNCHANGED <<blob, recleaned, sentiment, tweets_df, blobs, result_df>>
    /\ UNCHANGED <<session, df_after, udf, raw_df, processed_df>>
    /\ UNCHANGED pipeline

\* clean_text applied to the text an earlier clean_text call returned
CallCleanTextAgain ==
    /\ op = "clean_text"
    /\ recleaned' = clean_text(cleaned)
    /\ op' = "clean_text_again"
    /\ UNCHANGED <<text, blob, cleaned, sentiment, tweets_df, blobs, result_df>>
    /\ UNCHANGED <<session, df_after, udf, raw_df, processed_df>>
    /\ UNCHANGED pipeline

CallAnalyzeSentiment ==
    /\ op = "idle"
    /\ \E t \in AnalyzeTexts, b \in ScorerOutcomes :
          /\ text' = t
          /\ blob' = b
          /\ sentiment' = analyze_sentiment(t, b)
    /\ op' = "analyze_sentiment"
    /\ UNCHANGED <<cleaned, recleaned, tweets_df, blobs, result_df>>
    /\ UNCHANGED <<session, df_after, udf, raw_df, processed_df>>
    /\ UNCHANGED pipeline

CallBatchAnalyze ==
    /\ op = "idle"
    /\ \E n \in 0..MaxBatch, first \in FirstLabels :
          \E texts \in [1..n -> BatchTexts], bl \in [1..n -> BatchOutcomes] :
             /\ tweets_df' = InputFrame(texts, first)
             /\ blobs' = bl
             /\ result_df' = batch_analyze(InputFrame(texts, first), bl)
             /\ df_after' = caller_frame_after(InputFrame(texts, first))
    /\ op' = "batch_analyze"
    /\ UNCHANGED <<text, blob, cleaned, recleaned, sentiment>>
    /\ UNCHANGED <<session, udf, raw_df, processed_df>>
    /\ UNCHANGED pipeline

\* the UDF and analyze_sentiment on the same text with the same scorer
CallAnalyzeSentimentUdf ==
    /\ op = "idle"
    /\ \E t \in AnalyzeTexts :
          \E sc \in [ScorerKeys(t) -> ScorerOutcomes] :
             /\ text' = t
             /\ scorer' = sc
             /\ blob' = Score(sc, t)
             /\ sentiment' = analyze_sentiment(t, Score(sc, t))
             /\ udf' = analyze_sentiment_udf(t, sc)
    /\ op' = "analyze_sentiment_udf"
    /\ UNCHANGED <<cleaned, recleaned, tweets_df, blobs, result_df>>
    /\ UNCHANGED <<analyzer, ncalls, df_after, raw_df, processed_df>>
    /\ UNCHANGED pipeline

CallProcessTweets ==
    /\ op = "idle"
    /\ \E raw \in RawFrames :
          /\ raw_df' = raw
          /\ processed_df' = process_tweets(raw)
    /\ op' = "process_tweets"
    /\ UNCHANGED <<text, blob, cleaned, recleaned, sentiment, tweets_df, blobs,
                   result_df, session, df_after, udf>>
    /\ UNCHANGED pipeline

\* the call is over: its frame is gone and the analyzer is as constructed
Return ==
    /\ op # "idle"
    /\ op' = "idle"
    /\ text' = None
    /\ blob' = NoBlob
    /\ cleaned' = <<>>
    /\ recleaned' = <<>>
    /\ sentiment' = NoSentiment
    /\ tweets_df' = NoFrame
    /\ blobs' = <<>>
    /\ result_df' = NoResultFrame
    /\ df_after' = NoFrame
    /\ udf' = NoUdf
    /\ raw_df' = NoSparkFrame
    /\ processed_df' = NoProcessed
    /\ scorer' = NoScorer
    /\ UNCHANGED <<analyzer, ncalls>>
    /\ UNCHANGED pipeline

Next ==
    \/ CallCleanText
    \/ CallCleanTextAgain
    \/ CallAnalyzeSentiment
    \/ CallBatchAnalyze
    \/ CallAnalyzeSentimentUdf
    \/ CallProcessTweets
    \/ Return

Spec == Init /\ [][Next]_vars

(***************************************************************************)
(* A session: calls made one after another on one analyzer, all answered   *)
(* by one fixed scorer.                                                    *)
(***************************************************************************)
InitSession ==
    /\ op = "idle"
    /\ text = None
    /\ blob = NoBlob
    /\ cleaned = <<>>
    /\ recleaned = <<>>
    /\ sentiment = NoSentiment
    /\ tweets_df = NoFrame
    /\ blobs = <<>>
    /\ result_df = NoResultFrame
    /\ df_after = NoFrame
    /\ udf = NoUdf
    /\ raw_df = NoSparkFrame
    /\ processed_df = NoProcessed
    /\ analyzer = NewAnalyzer
    /\ scorer \in SessionScorers
    /\ ncalls = 0
    /\ PipelineIdle

SessionAnalyzeSentiment ==
    /\ op = "idle"
    /\ ncalls < MaxCalls
    /\ \E t \in BatchTexts :
          LET call == self_analyze_sentiment(analyzer, t, Score(scorer, t))
          IN /\ text' = t
             /\ blob' = Score(scorer, t)
             /\ sentiment' = call.ret
             /\ analyzer' = call.self
    /\ op' = "analyze_sentiment"
    /\ ncalls' = ncalls + 1
    /\ UNCHANGED <<cleaned, recleaned, tweets_df, blobs, result_df, scorer>>
    /\ UNCHANGED <<df_after, udf, raw_df, processed_df>>
    /\ UNCHANGED pipeline

SessionBatchAnalyze ==
    /\ op = "idle"
    /\ ncalls < MaxCalls
    /\ \E n \in 0..MaxBatch, first \in FirstLabels :
          \E texts \in [1..n -> BatchTexts] :
             LET bl == [k \in 1..n |-> Score(scorer, texts[k])]
                 call == self_batch_analyze(analyzer, InputFrame(texts, first), bl)
             IN /\ tweets_df' = InputFrame(texts, first)
                /\ blobs' = bl
                /\ result_df' = call.ret
                /\ analyzer' = call.self
                /\ df_after' = caller_frame_after(InputFrame(texts, first))
    /\ op' = "batch_analyze"
    /\ ncalls' = ncalls + 1
    /\ UNCHANGED <<text, blob, cleaned, recleaned, sentiment, scorer>>
    /\ UNCHANGED <<udf, raw_df, processed_df>>
    /\ UNCHANGED pipeline

\* the call returns: its frame is gone, the analyzer object stays
SessionReturn ==
    /\ op # "idle"
    /\ op' = "idle"
    /\ text' = None
    /\ blob' = NoBlob
    /\ cleaned' = <<>>
    /\ recleaned' = <<>>
    /\ sentiment' = NoSentiment
    /\ tweets_df' = NoFrame
    /\ blobs' = <<>>
    /\ result_df' = NoResultFrame
    /\ df_after' = NoFrame
    /\ udf' = NoUdf
    /\ raw_df' = NoSparkFrame
    /\ processed_df' = NoProcessed
    /\ UNCHANGED session
    /\ UNCHANGED pipeline

NextSession ==
    \/ SessionAnalyzeSentiment
    \/ SessionBatchAnalyze
    \/ SessionReturn

SessionSpec == InitSession /\ [][NextSession]_vars

(***************************************************************************)
(* Runs of run_full_pipeline, one after another: collect_tweets, then      *)
(* process_data, then update_dashboard_data.  A step that raises takes the *)
(* run to the except block of run_full_pipeline, which ends it.            *)
(***************************************************************************)
AnalyzerIdle ==
    /\ op = "idle"
    /\ text = None
    /\ blob = NoBlob
    /\ cleaned = <<>>
    /\ recleaned = <<>>
    /\ sentiment = NoSentiment
    /\ tweets_df = NoFrame
    /\ blobs = <<>>
    /\ result_df = NoResultFrame
    /\ df_after = NoFrame
    /\ udf = NoUdf
    /\ raw_df = NoSparkFrame
    /\ processed_df = NoProcessed
    /\ analyzer = NewAnalyzer
    /\ scorer = NoScorer
    /\ ncalls = 0

InitPipeline == AnalyzerIdle /\ PipelineIdle

RunCollectTweets ==
    /\ pc \in {"idle", "done"}
    /\ runs < MaxRuns
    /\ runs' = runs + 1
    /\ \E f \in Faults :
          LET c == collect_tweets(raw_dir, runs + 1, f)
          IN /\ faults' = f
             /\ filename' = c.filename
             /\ raw_dir' = c.raw_dir
             /\ pc' = IF c.raised THEN "done" ELSE "collected"
    /\ steps' = <<"collect_tweets">>
    /\ events' = <<>>
    /\ run_appended' = {}
    /\ propagated' = FALSE
    /\ UNCHANGED <<appended, analysis>>

RunProcessData ==
    /\ pc = "collected"
    /\ LET r == process_data(raw_dir, filename, faults)
       IN /\ events' = r.events
          /\ run_appended' = r.appended
          /\ appended' = [n \in DOMAIN appended |->
                             IF n \in r.appended THEN appended[n] + 1
                             ELSE appended[n]]
          /\ pc' = IF r.raised THEN "done" ELSE "processed"
    /\ steps' = Append(steps, "process_data")
    /\ propagated' = FALSE
    /\ UNCHANGED <<runs, raw_dir, filename, faults, analysis>>

\* update_dashboard_data catches every error of its queries and its export
RunUpdateDashboard ==
    /\ pc = "processed"
    /\ steps' = Append(steps, "update_dashboard_data")
    /\ pc' = "done"
    /\ propagated' = FALSE
    /\ UNCHANGED <<runs, raw_dir, filename, events, faults, appended,
                   run_appended, analysis>>

NextPipeline ==
    \/ RunCollectTweets
    \/ RunProcessData
    \/ RunUpdateDashboard

PipelineSpec == InitPipeline /\ [][NextPipeline]_vars

(***************************************************************************)
(* Properties.                                                             *)
(***************************************************************************)
Succeeded(t, b) == t.type = "str" /\ ~b.raises

NeutralDefault(t) ==
    [cleaned_text |-> t, polarity |-> 0, subjectivity |-> 0,
     sentiment_label |-> "neutral", confidence |-> 0]

\* s has a substring http / www / https followed by a non-whitespace character
HasUrl(s) ==
    \E i \in 1..Len(s) :
        \/ /\ i + 4 <= Len(s)
           /\ SubSeq(s, i, i + 3) = <<"h","t","t","p">>
           /\ s[i + 4] \notin Whitespace
        \/ /\ i + 3 <= Len(s)
           /\ SubSeq(s, i, i + 2) = <<"w","w","w">>
           /\ s[i + 3] \notin Whitespace

\* s has a substring @ or # followed by a word character
HasToken(s) ==
    \E i \in 1..Len(s) :
        /\ i + 1 <= Len(s)
        /\ s[i] \in {"@", "#"}
        /\ s[i + 1] \in WordChars

\* C1: when the scorer returns polarity p, the label is 'positive' exactly
\* when p > 0.1, 'negative' exactly when p < -0.1 and 'neutral' exactly when
\* -0.1 <= p <= 0.1, so the boundaries 0.1 and -0.1 are 'neutral'.
C1_LabelFollowsThresholds ==
    (op = "analyze_sentiment" /\ Succeeded(text, blob)) =>
        LET p == blob.polarity
            l == sentiment.value.sentiment_label
        IN /\ l \in {"positive", "negative", "neutral"}
           /\ (l = "positive") <=> (p > 10)
           /\ (l = "negative") <=> (p < -10)
           /\ (l = "neutral") <=> (-10 <= p /\ p <= 10)

C1_Witness ==
    /\ op = "analyze_sentiment"
    /\ Succeeded(text, blob)
    /\ blob.polarity = 10
    /\ sentiment.value.sentiment_label = "neutral"

\* C2: analyze_sentiment never raises, and when cleaning or the scorer fails
\* it returns the neutral default whose cleaned_text is the original text.
C2_NeverRaisesNeutralDefault ==
    (op = "analyze_sentiment") =>
        /\ ~sentiment.raised
        /\ (text.type # "str" \/ blob.raises) =>
               sentiment.value = NeutralDefault(text)

C2_Witness ==
    /\ op = "analyze_sentiment"
    /\ blob.raises
    /\ text.type = "str"
    /\ HasToken(text.chars)
    /\ sentiment.value.cleaned_text = text

\* C3: the text clean_text returns holds no URL-pattern substring and no
\* '@' or '#' followed by a word character.
C3_NoUrlNoToken ==
    (op = "clean_text") => (~HasUrl(cleaned) /\ ~HasToken(cleaned))

C3_Witness ==
    /\ op = "clean_text"
    /\ HasUrl(text.chars)
    /\ HasToken(text.chars)
    /\ Len(cleaned) > 0
    /\ Len(cleaned) < Len(text.chars)

\* C4: cleaning an already cleaned text changes nothing.
C4_CleanIdempotent ==
    (op = "clean_text_again") => (recleaned = cleaned)

C4_Witness ==
    /\ op = "clean_text_again"
    /\ HasToken(text.chars)
    /\ cleaned # text.chars
    /\ Len(cleaned) > 0
    /\ recleaned = cleaned

\* C5: on the normal path and on the fallback path the returned confidence
\* is the absolute value of the returned polarity.
C5_ConfidenceIsAbsPolarity ==
    (op = "analyze_sentiment") =>
        LET p == sentiment.value.polarity
        IN sentiment.value.confidence = (IF p < 0 THEN 0 - p ELSE p)

C5_Witness ==
    /\ op = "analyze_sentiment"
    /\ Succeeded(text, blob)
    /\ sentiment.value.polarity = -50
    /\ sentiment.value.confidence = 50

\* the input record and the scorer's answer at position i of the batch
TextAt(i) == tweets_df.data[i]["text"]
RowsInInputOrder ==
    /\ Len(result_df.value.data) = Len(tweets_df.data)
    /\ \A i \in 1..Len(tweets_df.data) :
           result_df.value.data[i]["id"] = tweets_df.data[i]["id"]

\* C6 as stated: batch_analyze returns n rows in input order and every
\* row's cleaned_text is clean_text of that record's text, also for the
\* records whose scoring failed.
C6_CleanedTextAlwaysCleaned ==
    (op = "batch_analyze") =>
        /\ RowsInInputOrder
        /\ \A i \in 1..Len(tweets_df.data) :
               TextAt(i).type = "str" =>
                   result_df.value.data[i]["cleaned_text"]
                       = Str(clean_text(TextAt(i).chars))

\* C6 amended: batch_analyze returns n rows in input order; the cleaned_text
\* of a record that was classified is clean_text of its text, and the
\* cleaned_text of a record whose cleaning or scoring failed is its
\* original text.
C6_CleanedTextPerOutcome ==
    (op = "batch_analyze") =>
        /\ RowsInInputOrder
        /\ \A i \in 1..Len(tweets_df.data) :
               result_df.value.data[i]["cleaned_text"]
                   = (IF Succeeded(TextAt(i), blobs[i])
                      THEN Str(clean_text(TextAt(i).chars))
                      ELSE TextAt(i))

C6_Witness ==
    /\ op = "batch_analyze"
    /\ Len(tweets_df.data) = 2
    /\ tweets_df.index[1] = 1
    /\ TextAt(1) = TextAt(2)
    /\ TextAt(1).type = "str"
    /\ HasUrl(TextAt(1).chars)
    /\ blobs[1].raises
    /\ ~blobs[2].raises
    /\ result_df.value.data[1]["cleaned_text"] = TextAt(1)
    /\ result_df.value.data[2]["cleaned_text"] = Str(<<"a">>)

\* C7: a failure on one record of a batch gives that record the neutral
\* default, the loop goes on through the remaining records, and every
\* record's result is what analyze_sentiment returns for it alone.
C7_FailureIsolated ==
    (op = "batch_analyze") =>
        /\ ~result_df.raised
        /\ Len(result_df.value.data) = Len(tweets_df.data)
        /\ \A i \in 1..Len(tweets_df.data) :
               LET row == result_df.value.data[i]
                   alone == analyze_sentiment(TextAt(i), blobs[i])
               IN /\ ~alone.raised
                  /\ \A c \in Range(SENTIMENT_COLUMNS) : row[c] = alone.value[c]
                  /\ ~Succeeded(TextAt(i), blobs[i]) =>
                         /\ row["polarity"] = 0
                         /\ row["subjectivity"] = 0
                         /\ row["sentiment_label"] = "neutral"
                         /\ row["confidence"] = 0

C7_Witness ==
    /\ op = "batch_analyze"
    /\ Len(tweets_df.data) = 2
    /\ ~Succeeded(TextAt(1), blobs[1])
    /\ Succeeded(TextAt(2), blobs[2])
    /\ result_df.value.data[1]["sentiment_label"] = "neutral"
    /\ result_df.value.data[2]["sentiment_label"] = "positive"
    /\ result_df.value.data[2]["polarity"] = 50

GenuinelyNeutral == [raises |-> FALSE, polarity |-> 0, subjectivity |-> 0]

\* C8 as stated: the result of a call whose scorer failed on s equals, in
\* all five fields, the result of a call whose scorer answered (0.0, 0.0).
C8_FailedEqualsNeutral ==
    (op = "analyze_sentiment" /\ text.type = "str" /\ blob.raises) =>
        sentiment.value = analyze_sentiment(text, GenuinelyNeutral).value

\* C8 amended: the result of a call whose scorer failed on s equals the
\* result of a call whose scorer answered (0.0, 0.0) in polarity,
\* subjectivity, sentiment_label and confidence; its cleaned_text is the
\* original s where the other holds clean_text(s), so the two results are
\* equal exactly when cleaning leaves s unchanged.
C8_FailedEqualsNeutralButText ==
    (op = "analyze_sentiment" /\ text.type = "str" /\ blob.raises) =>
        LET neutral == analyze_sentiment(text, GenuinelyNeutral).value
        IN /\ \A c \in {"polarity", "subjectivity", "sentiment_label",
                        "confidence"} : sentiment.value[c] = neutral[c]
           /\ sentiment.value.cleaned_text = text
           /\ neutral.cleaned_text = Str(clean_text(text.chars))
           /\ (sentiment.value = neutral) <=> (clean_text(text.chars) = text.chars)

C8_Witness ==
    /\ op = "analyze_sentiment"
    /\ text = Str(<<"@", "a">>)
    /\ clean_text(text.chars) # text.chars
    /\ blob.raises
    /\ sentiment.value.cleaned_text = text
    /\ sentiment.value.sentiment_label = "neutral"

\* C9: for every batch, the empty one included, the result of batch_analyze
\* has the columns 'sentiment_label' and 'polarity'.
C9_SentimentColumnsPresent ==
    (op = "batch_analyze") =>
        {"sentiment_label", "polarity"} \subseteq Range(result_df.value.columns)

\* C10: for a str input and a scorer within its ranges, the result has
\* exactly the five fields, polarity in [-1, 1], subjectivity in [0, 1],
\* confidence in [0, 1] and one of the three labels.
C10_ResultWellFormed ==
    (op = "analyze_sentiment" /\ text.type = "str") =>
        /\ ~sentiment.raised
        /\ DOMAIN sentiment.value =
               {"cleaned_text", "polarity", "subjectivity", "sentiment_label",
                "confidence"}
        /\ sentiment.value.polarity \in -100..100
        /\ sentiment.value.subjectivity \in 0..100
        /\ sentiment.value.confidence \in 0..100
        /\ sentiment.value.sentiment_label \in {"positive", "negative", "neutral"}

C10_Witness ==
    /\ op = "analyze_sentiment"
    /\ text.type = "str"
    /\ ~blob.raises
    /\ sentiment.value.polarity = -100
    /\ sentiment.value.confidence = 100
    /\ sentiment.value.subjectivity = 100
    /\ sentiment.value.sentiment_label = "negative"

\* C11: after any earlier analyze_sentiment and batch_analyze calls on the
\* same analyzer, a call returns what a fresh analyzer returns for the same
\* input and scorer, and no call changes the analyzer object.
C11_StatelessDeterministic ==
    /\ analyzer = NewAnalyzer
    /\ (op = "analyze_sentiment") =>
           sentiment =
               self_analyze_sentiment(NewAnalyzer, text, Score(scorer, text)).ret
    /\ (op = "batch_analyze") =>
           result_df =
               self_batch_analyze(NewAnalyzer, tweets_df,
                   [k \in DOMAIN tweets_df.data |-> Score(scorer, TextAt(k))]).ret

C11_Witness ==
    /\ op = "analyze_sentiment"
    /\ ncalls = MaxCalls
    /\ text.type = "str"
    /\ sentiment.value.sentiment_label = "positive"

\* C12: the returned label agrees with the sign of the returned polarity:
\* 'positive' implies polarity > 0, 'negative' implies polarity < 0 and
\* 'neutral' implies |polarity| <= 0.1.
C12_LabelAgreesWithSign ==
    (op = "analyze_sentiment") =>
        LET p == sentiment.value.polarity
            l == sentiment.value.sentiment_label
        IN /\ (l = "positive") => (p > 0)
           /\ (l = "negative") => (p < 0)
           /\ (l = "neutral") => (-10 <= p /\ p <= 10)

C12_Witness ==
    /\ op = "analyze_sentiment"
    /\ Succeeded(text, blob)
    /\ sentiment.value.sentiment_label = "negative"
    /\ sentiment.value.polarity = -11

\* C13: the text clean_text returns has no leading or trailing whitespace
\* and no whitespace but single spaces between non-empty tokens, and its
\* tokens are those left after the removals.
C13_WhitespaceNormalised ==
    (op = "clean_text") =>
        /\ \A i \in 1..Len(cleaned) :
               (cleaned[i] \in Whitespace) =>
                   /\ cleaned[i] = " "
                   /\ 1 < i /\ i < Len(cleaned)
                   /\ cleaned[i - 1] \notin Whitespace
                   /\ cleaned[i + 1] \notin Whitespace
        /\ split(cleaned) =
               split(re_sub(TOKEN_PATTERN, re_sub(URL_PATTERN, text.chars)))

C13_Witness ==
    /\ op = "clean_text"
    /\ text.chars = <<"\t", "a", "\t", "a">>
    /\ cleaned = <<"a", " ", "a">>

\* C14: every field of the i-th input record is unchanged in the i-th
\* result row, next to the sentiment fields of that same record, whatever
\* row labels the input carried, and the input frame is not modified.
C14_RecordsKeptInputUntouched ==
    (op = "batch_analyze") =>
        /\ Len(result_df.value.data) = Len(tweets_df.data)
        /\ \A i \in 1..Len(tweets_df.data) :
               LET row == result_df.value.data[i]
                   ok == Succeeded(TextAt(i), blobs[i])
               IN /\ \A c \in Range(tweets_df.columns) :
                         row[c] = tweets_df.data[i][c]
                  /\ row["polarity"] = (IF ok THEN blobs[i].polarity ELSE 0)
                  /\ row["subjectivity"] =
                         (IF ok THEN blobs[i].subjectivity ELSE 0)
                  /\ row["cleaned_text"] =
                         (IF ok THEN Str(clean_text(TextAt(i).chars))
                          ELSE TextAt(i))
        /\ df_after = tweets_df

C14_Witness ==
    /\ op = "batch_analyze"
    /\ tweets_df.index = <<1, 2>>
    /\ df_after.index = <<1, 2>>
    /\ result_df.value.index = <<0, 1>>
    /\ result_df.value.data[1]["id"] = 1
    /\ result_df.value.data[1]["polarity"] = -11
    /\ result_df.value.data[2]["id"] = 2
    /\ result_df.value.data[2]["polarity"] = 50

IsEnglishOriginal(r) ==
    /\ ~r.lang.null /\ r.lang.val = "en"
    /\ ~r.text.null
    /\ ~(Len(r.text.val) >= 4 /\ SubSeq(r.text.val, 1, 4) = <<"R","T"," ","@">>)

\* C18: process_tweets never raises and returns None on error; otherwise
\* every output record is English and no retweet, and the output holds every
\* English record whose text does not start with 'RT @', in input order.
C18_EnglishOriginalsKept ==
    (op = "process_tweets") =>
        LET out == processed_df.value
            error == \/ raw_df.none
                     \/ ~({"id", "text", "lang"} \subseteq raw_df.columns)
                     \/ raw_df.fails
            kept == SelectSeq(raw_df.rows, IsEnglishOriginal)
        IN /\ ~processed_df.raised
           /\ out.none <=> error
           /\ ~out.none =>
                  /\ \A j \in DOMAIN out.rows : IsEnglishOriginal(out.rows[j])
                  /\ Len(out.rows) = Len(kept)
                  /\ \A j \in DOMAIN kept :
                         /\ out.rows[j].id.val = ToString(kept[j].id.val)
                         /\ out.rows[j].text = kept[j].text

C18_Witness ==
    /\ op = "process_tweets"
    /\ ~raw_df.none
    /\ Len(raw_df.rows) = 2
    /\ raw_df.rows[1].text = Cell(<<"R","T"," ","@","a">>)
    /\ raw_df.rows[1].lang = Cell("en")
    /\ raw_df.rows[2].text = Cell(<<"a"," ","R","T"," ","@","a">>)
    /\ raw_df.rows[2].lang = Cell("en")
    /\ ~processed_df.value.none
    /\ Len(processed_df.value.rows) = 1
    /\ processed_df.value.rows[1].id = Cell("2")

\* C16: run_full_pipeline never raises to its caller and performs
\* collect_tweets, then process_data, then update_dashboard_data, in that
\* order; a finished run has executed update_dashboard_data, whatever the
\* collection returned and whatever failed inside process_data.
C16_ThreeStepsInOrder ==
    /\ ~propagated
    /\ pc = "idle" => steps = <<>>
    /\ pc = "collected" => steps = <<"collect_tweets">>
    /\ pc = "processed" => steps = <<"collect_tweets", "process_data">>
    /\ pc = "done" =>
          steps = <<"collect_tweets", "process_data", "update_dashboard_data">>

\* a finished run that collected nothing and whose process_data met an error
\* after reading the stored files
C16_Witness ==
    /\ pc = "done"
    /\ filename = NoFile
    /\ events # <<>>
    /\ events[Len(events)].result = "raised"
    /\ steps[Len(steps)] = "update_dashboard_data"

SaveEvents == SelectSeq(events, LAMBDA e : e.call = "save_to_hdfs")

\* C17 (as stated): every raw file is appended to processed_tweets at most
\* once over all runs, and a run appends only the file its own
\* collect_tweets produced, nothing when that returned no file.
C17_EachFileAppendedOnce ==
    /\ \A n \in DOMAIN appended : appended[n] <= 1
    /\ run_appended \subseteq ({filename} \ {NoFile})

IndexOf(call, mode) ==
    {k \in DOMAIN events : events[k].call = call /\ events[k].mode = mode}

\* C19: process_data never raises; with no input (the read gave None or
\* zero records) it makes no save_to_hdfs call; otherwise the append to
\* processed_tweets is its first save, made before create_aggregated_views,
\* and every view is written in overwrite mode after create_aggregated_views;
\* when no step fails the append and the three view writes all happen.
C19_ProcessDataWritesInOrder ==
    pc \in {"processed", "done"} =>
       /\ steps[2] = "process_data"
       /\ pc = "processed" \/ Len(steps) = 3
       /\ events[1].call = "read_json_files"
       /\ events[1].result \in {"None", "empty"} => SaveEvents = <<>>
       /\ SaveEvents # <<>> =>
             /\ SaveEvents[1].path = PROCESSED_TWEETS
             /\ SaveEvents[1].mode = "append"
             /\ \A k \in 2..Len(SaveEvents) :
                   /\ SaveEvents[k].mode = "overwrite"
                   /\ \E v \in DOMAIN VIEW_NAMES :
                         SaveEvents[k].path = VIEW_NAMES[v]
       /\ \A a \in IndexOf("save_to_hdfs", "append") :
          \A c \in IndexOf("create_aggregated_views", "") :
          \A w \in IndexOf("save_to_hdfs", "overwrite") : a < c /\ c < w
       /\ IndexOf("save_to_hdfs", "overwrite") # {} =>
             /\ IndexOf("save_to_hdfs", "append") # {}
             /\ IndexOf("create_aggregated_views", "") # {}
       /\ (events[1].result = "records" /\ ~faults.process) =>
             Cardinality(IndexOf("save_to_hdfs", "append")) = 1
       /\ (events[1].result = "records" /\ ~faults.process /\ ~faults.views)
             => [k \in 1..3 |-> SaveEvents[k + 1].path] = VIEW_NAMES

\* a process_data that read records and wrote the store and the three views
C19_Witness ==
    /\ pc = "processed"
    /\ events[1].result = "records"
    /\ Len(SaveEvents) = 4
    /\ SaveEvents[4].mode = "overwrite"

\* a process_data that read an empty raw file and returned without a save
C19_EmptyWitness ==
    /\ pc = "processed"
    /\ events[1].result = "empty"
    /\ SaveEvents = <<>>

====
